---- MODULE Spec2Model ----
(***************************************************************************)
(* RSExportElement (slang_rs_export_element.cpp): the process-wide element *)
(* catalogue (Initialized, ElementInfoMap, Init, GetElementInfo) and the   *)
(* type resolver (Create, CreateFromDecl).                                 *)
(*                                                                         *)
(* Spec   : several threads calling Init / GetElementInfo, one source      *)
(*          statement per step; the code takes no lock, so the unordered   *)
(*          accesses to ElementInfoMap are data races.                     *)
(* SpecR  : one caller; the inputs of Create / CreateFromDecl /            *)
(*          GetElementInfo are drawn by the initial state and each call    *)
(*          runs as one step.                                              *)
(***************************************************************************)
EXTENDS Naturals, Sequences, FiniteSets, TLC

\* ------------------------------------------------------------- bounds
NumThreads == 2
MaxCalls == 2
MaxChain == 3

\* ------------------------------------------------- the static table
\* RSDataElementEnums.inc: ENUM_RS_DATA_ELEMENT(_name, _dt, _norm, _vsize)
StaticTable ==
  << [name |-> "rs_uchar",  type |-> "UInt8",   normalized |-> TRUE,  vsize |-> 1],
     [name |-> "rs_uchar4", type |-> "UInt8",   normalized |-> TRUE,  vsize |-> 4],
     [name |-> "rs_float",  type |-> "Float32", normalized |-> FALSE, vsize |-> 1] >>

StaticNames == { StaticTable[i].name : i \in 1..Len(StaticTable) }

\* typedef names a program may declare: the table's names and one more
Names == StaticNames \cup {"my_t"}

\* ElementInfo { type, normalized, vsize } as built at lines 39-42
ElementInfoOf(row) ==
  [type |-> row.type, normalized |-> row.normalized, vsize |-> row.vsize]

StaticInfo(n) ==
  ElementInfoOf(StaticTable[CHOOSE i \in 1..Len(StaticTable) : StaticTable[i].name = n])

\* the null ElementInfo pointer
NULL == [type |-> "null", normalized |-> FALSE, vsize |-> 0]

\* ------------------------------------------------ the map (StringMap)
\* ElementInfoMap maps a name to the entries stored under it.
EmptyMap == [n \in Names |-> << >>]

\* first half of insert: is the key's bucket occupied
KeyPresent(map, n) == Len(map[n]) > 0

\* second half of insert: the entry is written and counted
StoreEntry(map, row) == [map EXCEPT ![row.name] = Append(@, ElementInfoOf(row))]

\* ElementInfoMap.insert(...) run without interruption: a key already in
\* the map is left alone
Insert(map, row) == IF KeyPresent(map, row.name) THEN map ELSE StoreEntry(map, row)

\* a find that gives the first row's descriptor for a missing key
FindValueOrFirst(map, n) ==
  IF Len(map[n]) = 0 THEN ElementInfoOf(StaticTable[1]) ELSE map[n][1]

\* ElementInfoMap.find(Name), then I == end() ? NULL : I->getValue()
FindValue(map, n) == IF Len(map[n]) = 0 THEN NULL ELSE map[n][1]

RECURSIVE PopulateFrom(_, _)
PopulateFrom(map, i) ==
  IF i > Len(StaticTable) THEN map
  ELSE PopulateFrom(Insert(map, StaticTable[i]), i + 1)

\* Init() run without interruption: <<Initialized, ElementInfoMap>> after it
InitSeq(init, map) ==
  IF ~init THEN [Initialized |-> TRUE, map |-> PopulateFrom(map, 1)]
  ELSE [Initialized |-> init, map |-> map]

VARIABLES
  Initialized,      \* RSExportElement::Initialized
  ElementInfoMap,   \* RSExportElement::ElementInfoMap
  populations,      \* how many times the block of lines 36-52 was entered
  pc, op, arg, idx, found, raced, ret, calls,   \* per thread (Spec)
  phase, decl, eiIn, nameIn,                    \* the drawn inputs (SpecR)
  lookups, handed, via, usedEI, result, diag    \* what a resolver call did

catVars == <<Initialized, ElementInfoMap, populations>>
thrVars == <<pc, op, arg, idx, found, raced, ret, calls>>
inVars == <<decl, eiIn, nameIn>>
outVars == <<lookups, handed, via, usedEI, result, diag>>
resVars == <<phase, inVars, outVars>>
vars == <<catVars, thrVars, resVars>>

Threads == 1..NumThreads

\* ------------------------------------------ values of the resolver
Classes == {"Builtin", "Pointer", "ExtVector", "Record"}
DataTypes == {"UInt8", "Float32"}

NoDecl == [layers |-> << >>, cls |-> "Record", kind |-> "UInt8", width |-> 1,
           exportable |-> FALSE]
NoResult == [tag |-> "none", kind |-> "none", normalized |-> FALSE, width |-> 0,
             node |-> 0]
NoRet == [name |-> "", val |-> NULL, valid |-> FALSE]

ResolverIdle ==
  /\ phase = "threads"
  /\ decl = NoDecl
  /\ eiIn = NULL
  /\ nameIn = ""
  /\ lookups = << >>
  /\ handed = 0
  /\ via = "none"
  /\ usedEI = NULL
  /\ result = NoResult
  /\ diag = "none"

\* ===================================================================
\* Spec: threads calling Init() and GetElementInfo(), no lock anywhere
\* ===================================================================
InitC ==
  /\ Initialized = FALSE
  /\ ElementInfoMap = EmptyMap
  /\ populations = 0
  /\ pc = [t \in Threads |-> "idle"]
  /\ op = [t \in Threads |-> "none"]
  /\ arg = [t \in Threads |-> ""]
  /\ idx = [t \in Threads |-> 0]
  /\ found = [t \in Threads |-> FALSE]
  /\ raced = [t \in Threads |-> FALSE]
  /\ ret = [t \in Threads |-> NoRet]
  /\ calls = [t \in Threads |-> 0]
  /\ ResolverIdle

\* a fault ends the process
Running == \A t \in Threads : pc[t] # "fault"

\* a thread enters Init()
CallInit(t) ==
  /\ Running
  /\ pc[t] = "idle"
  /\ calls[t] < MaxCalls
  /\ pc' = [pc EXCEPT ![t] = "init_check"]
  /\ op' = [op EXCEPT ![t] = "Init"]
  /\ calls' = [calls EXCEPT ![t] = @ + 1]
  /\ UNCHANGED <<catVars, arg, idx, found, raced, ret>>
  /\ UNCHANGED resVars

\* a thread enters GetElementInfo(Name)
CallGetElementInfo(t) ==
  /\ Running
  /\ pc[t] = "idle"
  /\ calls[t] < MaxCalls
  /\ \E n \in Names : arg' = [arg EXCEPT ![t] = n]
  /\ pc' = [pc EXCEPT ![t] = "gei_check"]
  /\ op' = [op EXCEPT ![t] = "GetElementInfo"]
  /\ ret' = [ret EXCEPT ![t] = NoRet]
  /\ calls' = [calls EXCEPT ![t] = @ + 1]
  /\ UNCHANGED <<catVars, idx, found, raced>>
  /\ UNCHANGED resVars

\* where Init() returns to
AfterInit(t) == IF op[t] = "Init" THEN "idle" ELSE "find_begin"

\* line 157: if (!Initialized) Init();
GeiCheck(t) ==
  /\ Running
  /\ pc[t] = "gei_check"
  /\ pc' = [pc EXCEPT ![t] = IF ~Initialized THEN "init_check" ELSE "find_begin"]
  /\ UNCHANGED <<catVars, op, arg, idx, found, raced, ret, calls>>
  /\ UNCHANGED resVars

\* line 35: if (!Initialized) is true, the population block is entered
InitEnter(t) ==
  /\ Running
  /\ pc[t] = "init_check"
  /\ ~Initialized
  /\ pc' = [pc EXCEPT ![t] = "insert_lookup"]
  /\ idx' = [idx EXCEPT ![t] = 1]
  /\ populations' = populations + 1
  /\ UNCHANGED <<Initialized, ElementInfoMap, op, arg, found, raced, ret, calls>>
  /\ UNCHANGED resVars

\* line 35: if (!Initialized) is false; line 56: return
InitSkip(t) ==
  /\ Running
  /\ pc[t] = "init_check"
  /\ Initialized
  /\ pc' = [pc EXCEPT ![t] = AfterInit(t)]
  /\ UNCHANGED <<catVars, op, arg, idx, found, raced, ret, calls>>
  /\ UNCHANGED resVars

\* line 45, ElementInfoMap.insert, first half: the key's bucket is looked up
InsertLookup(t) ==
  /\ Running
  /\ pc[t] = "insert_lookup"
  /\ found' = [found EXCEPT ![t] = KeyPresent(ElementInfoMap, StaticTable[idx[t]].name)]
  /\ raced' = [raced EXCEPT ![t] = FALSE]
  /\ pc' = [pc EXCEPT ![t] = "insert_store"]
  /\ UNCHANGED <<catVars, op, arg, idx, ret, calls>>
  /\ UNCHANGED resVars

NextRow(t) == IF idx[t] = Len(StaticTable) THEN "set_initialized" ELSE "insert_lookup"

\* a write to the map by t is unordered with every access another thread
\* has under way
MarkRaced(t) ==
  [u \in Threads |->
     IF u # t /\ pc[u] \in {"insert_store", "find_end"} THEN TRUE ELSE raced[u]]

\* the row after idx[t], or 0 after the last one
NextIdx(t) == IF idx[t] = Len(StaticTable) THEN 0 ELSE idx[t] + 1

\* line 45, second half, the key was found: insert returns false
InsertExisting(t) ==
  /\ Running
  /\ pc[t] = "insert_store"
  /\ found[t]
  /\ pc' = [pc EXCEPT ![t] = NextRow(t)]
  /\ idx' = [idx EXCEPT ![t] = NextIdx(t)]
  /\ UNCHANGED <<catVars, op, arg, found, raced, ret, calls>>
  /\ UNCHANGED resVars

\* line 45, second half, the key was not found: the entry is stored. When
\* another thread wrote since the lookup (a data race on the table) the entry
\* lands beside whatever that thread stored.
InsertStore(t) ==
  /\ Running
  /\ pc[t] = "insert_store"
  /\ ~found[t]
  /\ ElementInfoMap' = StoreEntry(ElementInfoMap, StaticTable[idx[t]])
  /\ raced' = MarkRaced(t)
  /\ pc' = [pc EXCEPT ![t] = NextRow(t)]
  /\ idx' = [idx EXCEPT ![t] = NextIdx(t)]
  /\ UNCHANGED <<Initialized, populations, op, arg, found, ret, calls>>
  /\ UNCHANGED resVars

\* line 45, second half, the key was not found and another thread wrote
\* since the lookup: the entry goes to a bucket of the table the other
\* thread's rehash has dropped, and is lost
InsertLost(t) ==
  /\ Running
  /\ pc[t] = "insert_store"
  /\ ~found[t]
  /\ raced[t]
  /\ raced' = MarkRaced(t)
  /\ pc' = [pc EXCEPT ![t] = NextRow(t)]
  /\ idx' = [idx EXCEPT ![t] = NextIdx(t)]
  /\ UNCHANGED <<catVars, op, arg, found, ret, calls>>
  /\ UNCHANGED resVars

\* line 54: Initialized = true; line 56: return
SetInitialized(t) ==
  /\ Running
  /\ pc[t] = "set_initialized"
  /\ Initialized' = TRUE
  /\ pc' = [pc EXCEPT ![t] = AfterInit(t)]
  /\ UNCHANGED <<ElementInfoMap, populations, op, arg, idx, found, raced, ret, calls>>
  /\ UNCHANGED resVars

\* line 160: ElementInfoMap.find(Name) starts reading the table
FindBegin(t) ==
  /\ Running
  /\ pc[t] = "find_begin"
  /\ raced' = [raced EXCEPT ![t] = FALSE]
  /\ pc' = [pc EXCEPT ![t] = "find_end"]
  /\ UNCHANGED <<catVars, op, arg, idx, found, ret, calls>>
  /\ UNCHANGED resVars

\* what a find may return: the stored value, or, when the table was written
\* while it was read (a data race), also a miss
FindOutcomes(t) ==
  IF raced[t] THEN {FindValue(ElementInfoMap, arg[t]), NULL}
  ELSE {FindValue(ElementInfoMap, arg[t])}

\* lines 160-164: find ends and GetElementInfo returns
FindEnd(t) ==
  /\ Running
  /\ pc[t] = "find_end"
  /\ \E v \in FindOutcomes(t) :
       ret' = [ret EXCEPT ![t] = [name |-> arg[t], val |-> v, valid |-> TRUE]]
  /\ pc' = [pc EXCEPT ![t] = "idle"]
  /\ UNCHANGED <<catVars, op, arg, idx, found, raced, calls>>
  /\ UNCHANGED resVars

\* a raced access to the table may also fault: the process dies
Fault(t) ==
  /\ Running
  /\ raced[t]
  /\ \/ pc[t] = "insert_store" /\ ~found[t]
     \/ pc[t] = "find_end"
  /\ pc' = [pc EXCEPT ![t] = "fault"]
  /\ UNCHANGED <<catVars, op, arg, idx, found, raced, ret, calls>>
  /\ UNCHANGED resVars

Step(t) ==
  \/ CallInit(t)
  \/ CallGetElementInfo(t)
  \/ GeiCheck(t)
  \/ InitEnter(t)
  \/ InitSkip(t)
  \/ InsertLookup(t)
  \/ InsertExisting(t)
  \/ InsertStore(t)
  \/ InsertLost(t)
  \/ SetInitialized(t)
  \/ FindBegin(t)
  \/ FindEnd(t)
  \/ Fault(t)

Next == \E t \in Threads : Step(t)

Spec == InitC /\ [][Next]_vars

\* ===================================================================
\* the resolver: Create and CreateFromDecl
\* ===================================================================
\* A declared type is a chain of sugar nodes over a canonical node. layers[i]
\* is a typedef's name, or "sugar" for a sugar node that is no typedef
\* (a parenthesised, elaborated or typeof type). Node i is layers[i]; node
\* Len(layers)+1 is the canonical node, of class cls, element kind `kind`,
\* `width` elements, and exportable when NormalizeType accepts it.
LayerKinds == Names \cup {"sugar"}
VecWidths == {2, 4}

Chains == UNION { [1..n -> LayerKinds] : n \in 0..MaxChain }

CanonNodes ==
  [cls : {"Builtin", "Pointer"}, kind : DataTypes, width : {1}, exportable : BOOLEAN]
  \cup [cls : {"ExtVector"}, kind : DataTypes, width : VecWidths, exportable : BOOLEAN]
  \cup [cls : {"Record"}, kind : {"UInt8"}, width : {1}, exportable : BOOLEAN]

Decls ==
  { [layers |-> c, cls |-> k.cls, kind |-> k.kind, width |-> k.width,
     exportable |-> k.exportable] : c \in Chains, k \in CanonNodes }

\* GET_CANONICAL_TYPE(T)
CanonPos(d) == Len(d.layers) + 1

\* T->getTypeClass()
NodeClass(d, pos) ==
  IF pos >= CanonPos(d) THEN d.cls
  ELSE IF d.layers[pos] = "sugar" THEN "Sugar" ELSE "Typedef"

\* results
NullResult == [tag |-> "NULL", kind |-> "none", normalized |-> FALSE, width |-> 0,
               node |-> 0]
\* a failed slangAssert: the process is aborted
AbortResult == [tag |-> "Abort", kind |-> "none", normalized |-> FALSE, width |-> 0,
                node |-> 0]

\* RSExportType::NormalizeType(T, TypeName, ...): fails on a type that is not
\* exportable, and else leaves T at its canonical node
NormalizeType(d, pos) == [ok |-> d.exportable, T |-> CanonPos(d)]

\* RSExportType::Create(Context, T), the generic builder, on node pos
GenericCreate(d, pos) ==
  IF d.exportable
  THEN [tag |-> "Generic", kind |-> d.kind, normalized |-> FALSE, width |-> d.width,
        node |-> pos]
  ELSE NullResult

\* RSExportPrimitiveType::Create(Context, T, TypeName, Normalized)
PrimitiveTypeCreate(d, norm) ==
  [tag |-> "Primitive", kind |-> d.kind, normalized |-> norm, width |-> 1, node |-> 0]

\* RSExportVectorType::Create(Context, canonical vector type, TypeName, Normalized)
VectorTypeCreate(d, norm) ==
  [tag |-> "Vector", kind |-> d.kind, normalized |-> norm, width |-> d.width, node |-> 0]

\* GetElementInfo(Name) run without interruption
GetElementInfoSeq(cat, n) ==
  LET c == InitSeq(cat.Initialized, cat.map)
  IN  [cat |-> c, ei |-> FindValue(c.map, n)]

\* the primitive case without the vsize assertion
CreatePrimitiveNoWidthCheck(d, ei) ==
  LET EPT == PrimitiveTypeCreate(d, ei.normalized)
  IN  IF ~(ei.type = EPT.kind) THEN AbortResult ELSE EPT

\* lines 78-90: case Builtin, case Pointer
CreatePrimitive(d, ei) ==
  IF ~(ei.vsize = 1) THEN AbortResult
  ELSE LET EPT == PrimitiveTypeCreate(d, ei.normalized)
       IN  IF ~(ei.type = EPT.kind) THEN AbortResult ELSE EPT

\* the vector case passing a constant for EI->normalized
CreateVectorDropsNormalized(d, ei) ==
  IF ~(ei.vsize > 1) THEN AbortResult
  ELSE LET EVT == VectorTypeCreate(d, FALSE)
       IN  IF ~(ei.type = EVT.kind) THEN AbortResult
           ELSE IF ~(ei.vsize = EVT.width) THEN AbortResult
           ELSE EVT

\* lines 91-107: case ExtVector
CreateVector(d, ei) ==
  IF ~(ei.vsize > 1) THEN AbortResult
  ELSE LET EVT == VectorTypeCreate(d, ei.normalized)
       IN  IF ~(ei.type = EVT.kind) THEN AbortResult
           ELSE IF ~(ei.vsize = EVT.width) THEN AbortResult
           ELSE EVT

\* RSExportElement::Create(Context, T, EI), T being node pos of d
Create(d, pos, ei, cat) ==
  LET c == InitSeq(cat.Initialized, cat.map)
      n == NormalizeType(d, pos)
      k == NodeClass(d, n.T)
  IN  IF ei = NULL THEN [cat |-> c, result |-> AbortResult, diag |-> "none"]
      ELSE IF ~n.ok THEN [cat |-> c, result |-> NullResult, diag |-> "none"]
      ELSE IF k \in {"Builtin", "Pointer"}
           THEN [cat |-> c, result |-> CreatePrimitive(d, ei), diag |-> "none"]
      ELSE IF k = "ExtVector"
           THEN [cat |-> c, result |-> CreateVector(d, ei), diag |-> "none"]
      ELSE [cat |-> c, result |-> NullResult, diag |-> k]

\* the class filter letting pointers through
CatalogueCandidateWithPointer(cls) == cls \in {"Builtin", "Pointer", "ExtVector"}

\* the class filter letting every class through
CatalogueCandidateAny(cls) == cls \in Classes

\* lines 127-128: the canonical classes that may name an element
CatalogueCandidate(cls) == cls \in {"Builtin", "ExtVector"}

\* a walk that never breaks on a match
StopOnMatchNever(ei) == FALSE

\* lines 141-142: if (EI != NULL) break;
StopOnMatch(ei) == ei # NULL

\* lines 134-146: the walk down the typedef chain, from node pos
RECURSIVE Walk(_, _, _, _, _)
Walk(d, pos, cat, log, ei) ==
  IF pos = CanonPos(d) \/ NodeClass(d, pos) # "Typedef"
  THEN [pos |-> pos, ei |-> ei, cat |-> cat, lookups |-> log]
  ELSE LET r == GetElementInfoSeq(cat, d.layers[pos])
       IN  IF StopOnMatch(r.ei)
           THEN [pos |-> pos, ei |-> r.ei, cat |-> r.cat,
                 lookups |-> Append(log, d.layers[pos])]
           ELSE Walk(d, pos + 1, r.cat, Append(log, d.layers[pos]), r.ei)

\* handing on the declared node instead of T
HandedOnDeclared(declared, T) == declared

\* lines 148-152: the node handed on is T as the walk left it
HandedOn(declared, T) == T

\* RSExportElement::CreateFromDecl(Context, DD), d being the type of DD
CreateFromDecl(d, cat) ==
  IF ~CatalogueCandidate(NodeClass(d, CanonPos(d)))
  THEN [cat |-> cat, lookups |-> << >>, handed |-> 1, via |-> "generic",
        EI |-> NULL, result |-> GenericCreate(d, 1), diag |-> "none"]
  ELSE LET w == Walk(d, 1, cat, << >>, NULL)
           T == HandedOn(1, w.pos)
       IN  IF w.ei = NULL
           THEN [cat |-> w.cat, lookups |-> w.lookups, handed |-> T, via |-> "generic",
                 EI |-> NULL, result |-> GenericCreate(d, T), diag |-> "none"]
           ELSE LET r == Create(d, T, w.ei, w.cat)
                IN  [cat |-> r.cat, lookups |-> w.lookups, handed |-> T,
                     via |-> "element", EI |-> w.ei, result |-> r.result,
                     diag |-> r.diag]

\* ------------------------------------------------ SpecR: one caller
ThreadsIdle ==
  /\ pc = [t \in Threads |-> "idle"]
  /\ op = [t \in Threads |-> "none"]
  /\ arg = [t \in Threads |-> ""]
  /\ idx = [t \in Threads |-> 0]
  /\ found = [t \in Threads |-> FALSE]
  /\ raced = [t \in Threads |-> FALSE]
  /\ ret = [t \in Threads |-> NoRet]
  /\ calls = [t \in Threads |-> 0]

InitR ==
  /\ Initialized = FALSE
  /\ ElementInfoMap = EmptyMap
  /\ populations = 0
  /\ ThreadsIdle
  /\ phase = "ready"
  /\ decl \in Decls
  /\ eiIn = NULL
  /\ nameIn = ""
  /\ lookups = << >>
  /\ handed = 0
  /\ via = "none"
  /\ usedEI = NULL
  /\ result = NoResult
  /\ diag = "none"

Cat == [Initialized |-> Initialized, map |-> ElementInfoMap]

\* Init() called by the one caller
DoInit ==
  /\ phase = "ready"
  /\ LET c == InitSeq(Initialized, ElementInfoMap)
     IN  /\ Initialized' = c.Initialized
         /\ ElementInfoMap' = c.map
  /\ populations' = IF Initialized THEN populations ELSE populations + 1
  /\ UNCHANGED <<thrVars, phase, inVars, outVars>>

\* GetElementInfo(Name)
DoGetElementInfo ==
  /\ phase = "ready"
  /\ \E n \in Names :
       LET r == GetElementInfoSeq(Cat, n)
       IN  /\ nameIn' = n
           /\ usedEI' = r.ei
           /\ Initialized' = r.cat.Initialized
           /\ ElementInfoMap' = r.cat.map
  /\ populations' = IF Initialized THEN populations ELSE populations + 1
  /\ phase' = "GetElementInfo"
  /\ UNCHANGED <<thrVars, decl, eiIn, lookups, handed, via, result, diag>>

\* the descriptors a caller of Create may pass
ElementInfos == { StaticInfo(n) : n \in StaticNames } \cup {NULL}

\* Create(Context, T, EI) called directly on a node of the declared type
DoCreate ==
  /\ phase = "ready"
  /\ \E pos \in 1..CanonPos(decl), ei \in ElementInfos :
       LET r == Create(decl, pos, ei, Cat)
       IN  /\ eiIn' = ei
           /\ usedEI' = ei
           /\ handed' = pos
           /\ result' = r.result
           /\ diag' = r.diag
           /\ Initialized' = r.cat.Initialized
           /\ ElementInfoMap' = r.cat.map
  /\ populations' = IF Initialized THEN populations ELSE populations + 1
  /\ via' = "element"
  /\ phase' = "Create"
  /\ UNCHANGED <<thrVars, decl, nameIn, lookups>>

\* CreateFromDecl(Context, DD)
DoCreateFromDecl ==
  /\ phase = "ready"
  /\ LET r == CreateFromDecl(decl, Cat)
     IN  /\ lookups' = r.lookups
         /\ handed' = r.handed
         /\ via' = r.via
         /\ usedEI' = r.EI
         /\ result' = r.result
         /\ diag' = r.diag
         /\ Initialized' = r.cat.Initialized
         /\ ElementInfoMap' = r.cat.map
         /\ populations' = IF r.cat.Initialized /\ ~Initialized
                           THEN populations + 1 ELSE populations
  /\ phase' = "CreateFromDecl"
  /\ UNCHANGED <<thrVars, decl, eiIn, nameIn>>

NextR ==
  \/ DoInit
  \/ DoGetElementInfo
  \/ DoCreate
  \/ DoCreateFromDecl

SpecR == InitR /\ [][NextR]_vars

\* ===================================================================
\* properties
\* ===================================================================
\* the alias chain of a declared type: its leading typedef layers
AliasLen(d) ==
  CHOOSE k \in 0..Len(d.layers) :
    /\ \A i \in 1..k : d.layers[i] # "sugar"
    /\ k = Len(d.layers) \/ d.layers[k + 1] = "sugar"

RegisteredLayers(d) == { i \in 1..AliasLen(d) : d.layers[i] \in StaticNames }

Outermost(d) == CHOOSE i \in RegisteredLayers(d) : \A j \in RegisteredLayers(d) : i <= j

Expected(n) == IF n \in StaticNames THEN StaticInfo(n) ELSE NULL

ExactCatalogue ==
  \A n \in Names :
    ElementInfoMap[n] = IF n \in StaticNames THEN << StaticInfo(n) >> ELSE << >>

\* C1: under concurrent first use the population of the map runs exactly
\* once, and a caller gets past the initialization only after the population
\* has completed.
C1_PopulatesOnce ==
  /\ populations <= 1
  /\ Initialized => populations = 1
  /\ \A t \in Threads : pc[t] \in {"find_begin", "find_end"} => Initialized

\* C2: once every call has returned, the catalogue holds exactly one entry
\* for each name of the static table, mapped to that name's descriptor, and
\* nothing else.
C2_ExactlyOneEntryPerName ==
  ((\A t \in Threads : pc[t] = "idle") /\ (\E t \in Threads : calls[t] > 0))
    => ExactCatalogue

\* C3: every lookup that returns yields the static table's descriptor for a
\* name of the table and absent for any other name, whatever other callers
\* are doing.
C3_LookupSeesWholeTable ==
  \A t \in Threads : ret[t].valid => ret[t].val = Expected(ret[t].name)

\* C4: with a scalar or vector canonical type and more than one registered
\* layer in the alias chain, CreateFromDecl uses the descriptor of the
\* outermost registered layer and looks up no layer beyond it.
C4_OuterWins ==
  (/\ phase = "CreateFromDecl"
   /\ decl.cls \in {"Builtin", "ExtVector"}
   /\ Cardinality(RegisteredLayers(decl)) > 1)
    => /\ via = "element"
       /\ usedEI = StaticInfo(decl.layers[Outermost(decl)])
       /\ lookups = SubSeq(decl.layers, 1, Outermost(decl))

C4_Witness ==
  /\ phase = "CreateFromDecl"
  /\ decl.cls = "Builtin"
  /\ Cardinality(RegisteredLayers(decl)) > 1
  /\ Outermost(decl) = 2
  /\ StaticInfo(decl.layers[2]) # StaticInfo(decl.layers[3])
  /\ usedEI = StaticInfo(decl.layers[2])

\* C5 as stated: CreateFromDecl consults the catalogue exactly when the
\* canonical class is scalar, pointer or vector, and a pointer whose alias
\* name is registered is resolved through Create.
C5_PointerConsultsCatalogue ==
  phase = "CreateFromDecl" =>
    /\ decl.cls \notin {"Builtin", "Pointer", "ExtVector"}
         => (lookups = << >> /\ via = "generic")
    /\ (decl.cls \in {"Builtin", "Pointer", "ExtVector"} /\ AliasLen(decl) > 0)
         => lookups # << >>
    /\ (decl.cls = "Pointer" /\ AliasLen(decl) > 0 /\ decl.layers[1] \in StaticNames)
         => via = "element"

\* C5 as amended: CreateFromDecl consults the catalogue exactly when the
\* canonical class is builtin scalar or vector (and the declared type is a
\* typedef); every other class, pointers included, goes to the generic
\* builder on the declared node with no lookup.
C5_OnlyScalarOrVectorConsults ==
  phase = "CreateFromDecl" =>
    /\ decl.cls \notin {"Builtin", "ExtVector"}
         => (lookups = << >> /\ via = "generic" /\ result = GenericCreate(decl, 1))
    /\ (decl.cls \in {"Builtin", "ExtVector"} /\ AliasLen(decl) > 0)
         => lookups # << >>
    /\ (decl.cls \in {"Builtin", "ExtVector"} /\ AliasLen(decl) = 0)
         => lookups = << >>

C5_Witness ==
  /\ phase = "CreateFromDecl"
  /\ decl.cls = "Pointer"
  /\ AliasLen(decl) > 0
  /\ decl.layers[1] \in StaticNames
  /\ via = "generic"
  /\ lookups = << >>

\* C6 as stated: the node CreateFromDecl hands on, to Create or to the
\* generic builder, is always the declared node.
C6_HandsDeclaredNode ==
  phase = "CreateFromDecl" => handed = 1

\* C6 as amended: the node handed on is the node at which the walk stopped:
\* the matched layer on a match, and on no match the first node that is no
\* typedef; it is the declared node when the class filter rejects the type.
C6_HandsNodeWalkStoppedAt ==
  phase = "CreateFromDecl" =>
    /\ ~(decl.cls \in {"Builtin", "ExtVector"}) => handed = 1
    /\ (decl.cls \in {"Builtin", "ExtVector"} /\ RegisteredLayers(decl) # {})
         => (via = "element" /\ handed = Outermost(decl))
    /\ (decl.cls \in {"Builtin", "ExtVector"} /\ RegisteredLayers(decl) = {})
         => (via = "generic" /\ handed = AliasLen(decl) + 1
             /\ result = GenericCreate(decl, AliasLen(decl) + 1))

C6_Witness ==
  /\ phase = "CreateFromDecl"
  /\ via = "element"
  /\ Len(decl.layers) = 3
  /\ handed = 3

\* C7 as stated: a declaration whose alias name is registered and whose
\* canonical class is Other makes CreateFromDecl fail with the diagnostic
\* naming the class, never giving the generic builder's result.
C7_RecordAliasNotExportable ==
  (/\ phase = "CreateFromDecl"
   /\ decl.cls = "Record"
   /\ RegisteredLayers(decl) # {})
    => (result = NullResult /\ diag = "Record" /\ via # "generic")

\* C7 as amended: CreateFromDecl hands such a declaration to the generic
\* builder with no lookup and no diagnostic; the failure with the diagnostic
\* naming the class is what Create gives when called itself on such a type.
C7_RecordAliasGoesGeneric ==
  /\ (/\ phase = "CreateFromDecl"
      /\ decl.cls = "Record"
      /\ RegisteredLayers(decl) # {})
       => (via = "generic" /\ lookups = << >> /\ diag = "none"
           /\ result = GenericCreate(decl, 1))
  /\ (/\ phase = "Create"
      /\ decl.cls = "Record"
      /\ decl.exportable
      /\ eiIn # NULL)
       => (result = NullResult /\ diag = "Record")

C7_Witness ==
  /\ phase = "CreateFromDecl"
  /\ decl.cls = "Record"
  /\ decl.exportable
  /\ RegisteredLayers(decl) # {}
  /\ result.tag = "Generic"

\* C8: when Create runs on a type that normalizes, a scalar or pointer with
\* vsize # 1, a vector with vsize <= 1, a built type of another kind than the
\* descriptor's, or a vector of another width ends in the abort, which is
\* not the null result, and no primitive or vector type is returned.
ShapeMismatch(d, ei) ==
  \/ d.cls \in {"Builtin", "Pointer"} /\ ei.vsize # 1
  \/ d.cls = "ExtVector" /\ ei.vsize <= 1
  \/ d.cls \in {"Builtin", "Pointer", "ExtVector"} /\ d.kind # ei.type
  \/ d.cls = "ExtVector" /\ d.width # ei.vsize

C8_MismatchAborts ==
  (/\ phase \in {"Create", "CreateFromDecl"}
   /\ via = "element"
   /\ usedEI # NULL
   /\ decl.exportable
   /\ ShapeMismatch(decl, usedEI))
    => (result = AbortResult /\ result # NullResult
        /\ result.tag \notin {"Primitive", "Vector"})

C8_Witness ==
  /\ phase = "CreateFromDecl"
  /\ via = "element"
  /\ decl.cls = "Builtin"
  /\ decl.kind = usedEI.type
  /\ usedEI.vsize = 4
  /\ result = AbortResult

\* C9: a name outside the static table is looked up as absent whether or
\* not the catalogue was initialized before, and a declared type none of
\* whose alias layers is registered gets the generic builder's result and
\* never reaches Create.
C9_CatalogueClosure ==
  /\ (phase = "GetElementInfo" /\ nameIn \notin StaticNames) => usedEI = NULL
  /\ (phase = "CreateFromDecl" /\ RegisteredLayers(decl) = {})
       => (via = "generic" /\ usedEI = NULL /\ result = GenericCreate(decl, handed))

C9_Witness ==
  /\ phase = "CreateFromDecl"
  /\ decl.cls = "ExtVector"
  /\ AliasLen(decl) = 2
  /\ RegisteredLayers(decl) = {}
  /\ Len(lookups) = 2
  /\ result.tag = "Generic"

\* C10: a declaration whose alias chain matches descriptor e and whose type
\* normalizes resolves to Primitive{e.type, e.normalized} when the canonical
\* type is a scalar of kind e.type and e.vsize = 1, and to
\* Vector{e.type, e.normalized, e.vsize} when it is a vector of e.vsize > 1
\* elements of kind e.type.
C10_ResultCarriesDescriptor ==
  (/\ phase = "CreateFromDecl"
   /\ RegisteredLayers(decl) # {}
   /\ decl.exportable
   /\ decl.kind = StaticInfo(decl.layers[Outermost(decl)]).type)
    => LET e == StaticInfo(decl.layers[Outermost(decl)])
       IN  /\ (decl.cls = "Builtin" /\ e.vsize = 1)
                => result = [tag |-> "Primitive", kind |-> e.type,
                             normalized |-> e.normalized, width |-> 1, node |-> 0]
           /\ (decl.cls = "ExtVector" /\ e.vsize > 1 /\ decl.width = e.vsize)
                => result = [tag |-> "Vector", kind |-> e.type,
                             normalized |-> e.normalized, width |-> e.vsize,
                             node |-> 0]

C10_Witness ==
  /\ phase = "CreateFromDecl"
  /\ decl.layers = << "rs_uchar4" >>
  /\ result = [tag |-> "Vector", kind |-> "UInt8", normalized |-> TRUE, width |-> 4,
               node |-> 0]
====
